---- MODULE Spec2Model ----
(***************************************************************************)
(* A model of the multi-task DQN bidding agent                             *)
(* (src/DQN_Agent/MultiTaskAgent.py): the replay buffer, the online and    *)
(* target networks, the warmup loop and the main training loop of          *)
(* DQNAgent.train, the epsilon schedule and the loss of a gradient step.   *)
(*                                                                         *)
(* Numbers.  Python floats are held as exact fixed-point integers:         *)
(*   - epsilon_start, epsilon_end and gamma are in hundredths              *)
(*     (1.0 is 100);                                                       *)
(*   - epsilon is the numerator of a fraction whose denominator is         *)
(*     epsilon_decay_period * 100;                                         *)
(*   - targets are in hundredths; losses are numerators over               *)
(*     20000 * batch size.                                                 *)
(* Network parameters are held as the number of optimizer steps that       *)
(* produced them (theta_0 at construction, theta_k after k steps).         *)
(* A transition is the tuple of the code,                                  *)
(*   <<obs, action, reward, highest_competitor_bid, done, new_obs>>,       *)
(* indexed from 1 here and from 0 in the code.                             *)
(***************************************************************************)
EXTENDS Integers, Sequences, FiniteSets, TLC

VARIABLES
    \* DQNAgent.__init__ arguments
    replay_buffer_size, min_replay_size, train_batch_size,
    target_update_frequency, epsilon_start, epsilon_end, epsilon_decay_period,
    gamma, weight_DQN_loss, weight_price_loss, reward_buffer_size,
    logging_frequency,
    \* train() argument
    num_episodes,
    \* evaluate() arguments, and the parameters stored at model_save_path
    eval_num_episodes, model_save_path, saved_net,
    \* AuctionSimulator arguments and state
    keyword_list, initial_budget, offer_range, reward_range, competitor_range,
    budget_unit, available, obs_seq,
    \* DQNAgent fields
    replay_buffer, online_net, target_net, epsilon, reward_buffer,
    \* locals of train()
    pc, warm_i, step, obs, remaining_budget, action, bid_price, keyword, bid,
    num_episodes_done, transitions, max_target_q_value, action_q_values,
    bid_prices, targets, loss_DQN, loss_price, loss_total,
    \* the statistics train() and evaluate() keep (locals of the same names
    \* in both)
    episode_reward, num_wins, num_bids_placed, num_episode_steps,
    episode_rewards, episode_win_rates, episode_steps, cumulative_rewards,
    cumulative_wins, cumulative_bids_placed, cumulative_episode_rewards,
    cumulative_episode_win_rates,
    \* the per-logging-period counters of train()
    num_random_actions, num_greedy_actions,
    \* the loop variable of evaluate()
    episode,
    \* what the networks can output (the range of their heads)
    q_range, price_range,
    \* observers: the arguments of the last run_auction_step call, the
    \* positions random.sample drew, the number of load_state_dict calls,
    \* the number of appends to the replay buffer, the transitions appended
    \* (kept by the replay-buffer specification), the exception that ended
    \* the run, the number of run_auction_step calls that returned, the
    \* number of logging blocks printed, the agent as it was when evaluate()
    \* was called
    env_call, sample_pos, sync_events, num_pushed, pushed, failure,
    num_env_steps, num_logs, before,
    \* the manual front ends of src/environment/env.py: the mode switch, the
    \* keywords on offer, the locals of cli_mode() and gui_mode() (the bid
    \* amount is `bid` in cli_mode and `bid_amount` in gui_mode), where the
    \* front end is, and observers: the number of prompts or events handled,
    \* the arguments of the last step() call and whether the entry behind it
    \* was a number, the number of step() calls, the exception that ended
    \* the front end
    GUI_FLAG, available_keywords, bid_amount, selected_keyword, player_bid,
    keyword_rects, message, bid_result, sec_bid, ui_pc, ui_events, step_call,
    num_step_calls, ui_failure

config_vars == <<replay_buffer_size, min_replay_size, train_batch_size,
                 target_update_frequency, epsilon_start, epsilon_end,
                 epsilon_decay_period, gamma, weight_DQN_loss,
                 weight_price_loss, reward_buffer_size, logging_frequency,
                 num_episodes, eval_num_episodes, model_save_path, saved_net,
                 keyword_list, initial_budget, offer_range, reward_range,
                 competitor_range, budget_unit, q_range, price_range>>

env_vars == <<available, obs_seq>>

agent_vars == <<replay_buffer, online_net, target_net, epsilon>>

local_vars == <<pc, warm_i, step, obs, remaining_budget, action, bid_price,
                keyword, bid, num_episodes_done>>

loss_vars == <<transitions, max_target_q_value, action_q_values, bid_prices,
               targets, loss_DQN, loss_price, loss_total>>

\* the statistics of the episode under way
episode_vars == <<episode_reward, num_wins, num_bids_placed,
                  num_episode_steps>>

\* the statistics of the run and the lists of the returned record
record_vars == <<episode_rewards, episode_win_rates, episode_steps,
                 cumulative_rewards, cumulative_wins, cumulative_bids_placed,
                 cumulative_episode_rewards, cumulative_episode_win_rates,
                 reward_buffer>>

stats_vars == <<episode_vars, record_vars>>

logging_vars == <<num_random_actions, num_greedy_actions, num_logs>>

eval_vars == <<episode, before>>

ui_vars == <<GUI_FLAG, available_keywords, bid_amount, selected_keyword,
             player_bid, keyword_rects, message, bid_result, sec_bid, ui_pc,
             ui_events, step_call, num_step_calls, ui_failure>>

observer_vars == <<env_call, sample_pos, sync_events, num_pushed, pushed,
                   failure, num_env_steps>>

vars == <<config_vars, env_vars, agent_vars, local_vars, loss_vars,
          stats_vars, logging_vars, eval_vars, ui_vars, observer_vars>>

----------------------------------------------------------------------------
(* Bounds of the model *)

\* min_replay_size ranges over 0..MaxSize, replay_buffer_size over
\* 1..MaxSize + 1
MaxSize == 2

\* target_update_frequency ranges over 1..MaxFreq
MaxFreq == 2

\* num_episodes ranges over 1..MaxEpisodes
MaxEpisodes == 2

\* the main loop's step counter (itertools.count) is cut off here
MaxSteps == 4

\* epsilon_decay_period ranges over 1..MaxPeriod
MaxPeriod == 3

\* the number of appends of the replay-buffer specification
MaxPushes == 4

\* the number of prompts of the CLI and of events of the GUI
MaxEvents == 4

\* the length of the text typed as a bid
MaxText == 2

----------------------------------------------------------------------------
(* Helpers *)

Abs(x) == IF x < 0 THEN -x ELSE x

RECURSIVE SumSeq(_)
SumSeq(s) == IF s = <<>> THEN 0 ELSE Head(s) + SumSeq(Tail(s))

\* the exceptions that can end train()
SampleError == "ValueError: Sample larger than population or is negative"

KeywordError == "ValueError: Keyword is not available"

ZeroDivisionError == "ZeroDivisionError: division by zero"

EmptyRangeError == "ValueError: empty range for randrange()"

UnboundLocalError == "UnboundLocalError: num_actions"

NoCall == [bid |-> FALSE, keyword |-> "None", bid_price |-> 0, action |-> 0,
           available |-> {}, phase |-> "none", random |-> FALSE, budget |-> 0,
           obs |-> 0, new_obs |-> 0]

----------------------------------------------------------------------------
(* The replay buffer: collections.deque(maxlen=replay_buffer_size) *)

\* (a full buffer that refuses the new item instead of evicting the oldest)
DequeAppendKeepOldest(buffer, item, maxlen) ==
    IF Len(buffer) >= maxlen THEN buffer ELSE Append(buffer, item)

\* deque.append on a bounded deque: the item goes in at the right and, when
\* the deque is then longer than maxlen, the leftmost item is dropped.
DequeAppend(buffer, item, maxlen) ==
    LET grown == Append(buffer, item)
    IN  IF Len(grown) > maxlen THEN Tail(grown) ELSE grown

\* (sampling with replacement, as random.choices does)
SamplePositionsWithReplacement(population, k) ==
    IF k > Len(population)
    THEN {}
    ELSE [1..k -> 1..Len(population)]

\* random.sample(population, k): the sequences of k distinct positions it can
\* draw.  It raises ValueError when k exceeds the population (no positions).
SamplePositions(population, k) ==
    IF k > Len(population)
    THEN {}
    ELSE {p \in [1..k -> 1..Len(population)] :
            \A i, j \in 1..k : i # j => p[i] # p[j]}

\* the minibatch read at the drawn positions
SampleAt(population, positions) ==
    [i \in 1..Len(positions) |-> population[positions[i]]]

----------------------------------------------------------------------------
(* The environment (simulator.simul.AuctionSimulator) *)

get_all_ad_keywords == keyword_list

get_action_space_dim == Len(keyword_list) + 1

get_current_available_keywords == available

\* the keyword sets the simulator can put on offer in a round
AvailableSets == offer_range

\* run_auction_step(will_bid, keyword, bid_price): the results it can return.
\* A bid on a keyword that is not on offer is refused with an exception.
run_auction_step(will_bid, kw, price) ==
    IF will_bid /\ kw \notin available
    THEN {[raises |-> TRUE, reward |-> 0, done |-> FALSE, win |-> FALSE,
           highest_competitor_bid |-> 0, remaining_budget |-> remaining_budget]}
    ELSE LET results ==
               {[raises |-> FALSE, reward |-> r, done |-> d,
                 win |-> will_bid /\ price > h,
                 highest_competitor_bid |-> h,
                 remaining_budget |->
                     IF will_bid /\ price > h THEN remaining_budget - price
                                              ELSE remaining_budget] :
                  r \in reward_range, d \in BOOLEAN,
                  h \in (IF will_bid THEN competitor_range ELSE {0})}
         IN  \* the episode ends when the budget is exhausted
             {res \in results : res.remaining_budget <= 0 => res.done}

----------------------------------------------------------------------------
(* DQNAgent: action selection *)

\* (np.interp without its clamping: the line is extended past xp1)
InterpNoClamp(x, xp0, xp1, fp0, fp1) ==
    fp0 * (xp1 - xp0) + (fp1 - fp0) * (x - xp0)

\* np.interp(x, [xp0, xp1], [fp0, fp1]) times (xp1 - xp0): clamped to fp0
\* left of xp0 and to fp1 from xp1 on, fp0 + slope * (x - xp0) in between.
Interp(x, xp0, xp1, fp0, fp1) ==
    IF x >= xp1 THEN fp1 * (xp1 - xp0)
    ELSE IF x <= xp0 THEN fp0 * (xp1 - xp0)
    ELSE fp0 * (xp1 - xp0) + (fp1 - fp0) * (x - xp0)

\* self.epsilon at a step of the main loop
EpsilonAt(s) == Interp(s, 0, epsilon_decay_period, epsilon_start, epsilon_end)

\* random.random() <= self.epsilon, random.random() being in [0, 1)
CanExplore(eps) == eps >= 0

CanExploit(eps) == eps < 100 * epsilon_decay_period

\* Budgets and prices are counted in steps of 1 / budget_unit, so that
\* int(budget) is budget \div budget_unit.
\* random_action(budget): <<keyword_selection, bid_price>>, the price being
\* random.randint(1, int(budget)).  randint raises ValueError on an empty
\* range (no action).
random_action(budget) ==
    (0..(get_action_space_dim - 1))
        \X {budget_unit * k : k \in 1..(budget \div budget_unit)}

\* select_action(obs, budget): the argmax of the keyword head and the price
\* head's output clamped to [0, budget]
Clamp(x, lo, hi) == IF x < lo THEN lo ELSE IF x > hi THEN hi ELSE x

select_action(observation, budget) ==
    {<<a, Clamp(p, 0, budget)>> :
        a \in 0..(get_action_space_dim - 1), p \in price_range}

\* env.get_all_ad_keywords()[index - 1] if index > 0 else None (sequences
\* start at 1 here)
index_to_keyword(index) ==
    IF index > 0 THEN get_all_ad_keywords[index] ELSE "None"

\* (the gate without the availability test)
WillBidUngated(kw) == kw # "None"

\* bid = keyword != None and keyword in env.get_current_available_keywords()
WillBid(kw) == kw # "None" /\ kw \in get_current_available_keywords

\* the bid price handed to run_auction_step
StepPrice(will_bid, price) == price


----------------------------------------------------------------------------
(* DQNAgent.train: the loss of a gradient step *)

price_pad == 1

\* (the target without the (1 - dones) factor)
TargetNoDoneMask(t, max_q) ==
    IF gamma > 0 THEN 100 * t[3] + gamma * max_q
                 ELSE 100 * t[3]

\* targets = rewards + gamma * (1 - dones) * max_target_q_value
\*           if gamma > 0 else rewards                       (in hundredths)
Target(t, max_q) ==
    IF gamma > 0
    THEN 100 * t[3] + gamma * (1 - (IF t[5] THEN 1 ELSE 0)) * max_q
    ELSE 100 * t[3]

\* smooth_l1_loss of one element (beta = 1) whose difference is d hundredths:
\* 0.5 * d^2 below 1, |d| - 0.5 from 1 on; times 20000
SmoothL1(d) ==
    IF Abs(d) < 100 THEN d * d ELSE 200 * Abs(d) - 10000

\* (no masking of the skipped rounds)
PriceMaskOff(price_to_win) == 1

\* mask = (price_to_win > price_pad).float()
PriceMask(price_to_win) == IF price_to_win > price_pad THEN 1 ELSE 0

\* loss_price_per_sample * mask of one sample
MaskedPriceLoss(t, predicted_price) ==
    LET price_to_win == t[4] + price_pad
    IN  SmoothL1(100 * (predicted_price - price_to_win)) * PriceMask(price_to_win)

\* the sums behind the two means (both are over train_batch_size elements)
LossDQN(q_taken, tgts) ==
    SumSeq([i \in 1..Len(tgts) |-> SmoothL1(100 * q_taken[i] - tgts[i])])

LossPrice(batch, prices) ==
    SumSeq([i \in 1..Len(batch) |-> MaskedPriceLoss(batch[i], prices[i])])

LossTotal(dqn, price) == weight_DQN_loss * dqn + weight_price_loss * price

----------------------------------------------------------------------------
(* DQNAgent.train *)

\* self.env.reset(): a new episode with the full budget
Reset ==
    /\ obs_seq' = obs_seq + 1
    /\ obs' = obs_seq + 1
    /\ remaining_budget' = initial_budget
    /\ available' \in AvailableSets

\* lines 106-109
BeginTrain ==
    /\ pc = "start"
    /\ Reset
    /\ pc' = "warmup"
    /\ UNCHANGED <<config_vars, ui_vars, eval_vars, agent_vars, warm_i, step,
                   action, bid_price, keyword, bid, num_episodes_done,
                   loss_vars, stats_vars, logging_vars, observer_vars>>

\* (a transition that records the observation the step returned twice)
TransitionOfNewObs(o, a, res, new_o) ==
    <<new_o, a, res.reward, res.highest_competitor_bid, res.done, new_o>>

\* transition = (obs, action, reward, info["highest_competitor_bid"], done,
\*               new_obs)
Transition(o, a, res, new_o) ==
    <<o, a, res.reward, res.highest_competitor_bid, res.done, new_o>>

\* One pass of the warmup loop (lines 111-121) and one environment step of
\* the main loop (lines 157-163) share this: gate the action, step the
\* environment, append the transition, move to the new observation.
\* `resets` says whether self.env.reset() follows (the step reported done
\* and nothing was raised on the way to the reset).
Interact(choice, phase, explore, res, resets) ==
    LET kw == index_to_keyword(choice[1])
        will_bid == WillBid(kw)
        price == StepPrice(will_bid, choice[2])
        new_obs == obs_seq + 1
    IN  /\ action' = choice[1]
        /\ bid_price' = choice[2]
        /\ keyword' = kw
        /\ bid' = will_bid
        /\ env_call' = [bid |-> will_bid, keyword |-> kw, bid_price |-> price,
                        action |-> choice[1], available |-> available,
                        phase |-> phase, random |-> explore,
                        budget |-> remaining_budget, obs |-> obs,
                        new_obs |-> new_obs]
        /\ replay_buffer' = DequeAppend(replay_buffer,
                                        Transition(obs, choice[1], res, new_obs),
                                        replay_buffer_size)
        /\ num_pushed' = num_pushed + 1
        /\ num_env_steps' = num_env_steps + 1
        \* obs = new_obs, or the observation of the reset that follows done
        /\ obs_seq' = IF resets THEN obs_seq + 2 ELSE obs_seq + 1
        /\ obs' = IF resets THEN obs_seq + 2 ELSE obs_seq + 1
        /\ remaining_budget' = IF resets THEN initial_budget
                               ELSE res.remaining_budget
        /\ available' \in AvailableSets

\* run_auction_step raised: the exception leaves train()
Raise(choice, phase, explore, name) ==
    LET kw == index_to_keyword(choice[1])
        will_bid == WillBid(kw)
    IN  /\ pc' = "error"
        /\ failure' = name
        /\ action' = choice[1]
        /\ bid_price' = choice[2]
        /\ keyword' = kw
        /\ bid' = will_bid
        /\ env_call' = [bid |-> will_bid, keyword |-> kw,
                        bid_price |-> StepPrice(will_bid, choice[2]),
                        action |-> choice[1], available |-> available,
                        phase |-> phase, random |-> explore,
                        budget |-> remaining_budget, obs |-> obs,
                        new_obs |-> obs]

\* (the warmup of the legacy agent, which counts the episodes it ends:
\* MultiModelAgent.py lines 108-110)
WarmupEpisodesCounted(count, done) == IF done THEN count + 1 ELSE count

\* if done: obs, info = self.env.reset() (lines 120-121): the warmup resets
\* the environment and counts nothing
WarmupEpisodes(count, done) == count

\* (a warmup loop that runs once more than min_replay_size)
WarmupContinuesOnceMore(i) == i <= min_replay_size

\* for _ in range(self.min_replay_size)
WarmupContinues(i) == i < min_replay_size

\* lines 111-121
WarmupStep ==
    /\ pc = "warmup"
    /\ WarmupContinues(warm_i)
    /\ IF random_action(remaining_budget) = {}
       THEN \* random.randint(1, int(budget)) raises
            /\ pc' = "error"
            /\ failure' = EmptyRangeError
            /\ UNCHANGED <<config_vars, ui_vars, eval_vars, env_vars,
                           agent_vars, warm_i, step, obs, remaining_budget,
                           action, bid_price, keyword, bid, num_episodes_done,
                           loss_vars, stats_vars, logging_vars, env_call,
                           sample_pos, sync_events, num_pushed, pushed,
                           num_env_steps>>
       ELSE \E choice \in random_action(remaining_budget) :
            LET kw == index_to_keyword(choice[1])
            IN  \E res \in run_auction_step(WillBid(kw), kw,
                                            StepPrice(WillBid(kw), choice[2])) :
                  IF res.raises
                  THEN /\ Raise(choice, "warmup", TRUE, KeywordError)
                       /\ UNCHANGED <<config_vars, ui_vars, eval_vars,
                                      env_vars, agent_vars, warm_i, step, obs,
                                      remaining_budget, num_episodes_done,
                                      loss_vars, stats_vars, logging_vars,
                                      sample_pos, sync_events, num_pushed,
                                      pushed, num_env_steps>>
                  ELSE /\ Interact(choice, "warmup", TRUE, res, res.done)
                       /\ warm_i' = warm_i + 1
                       /\ num_episodes_done' =
                              WarmupEpisodes(num_episodes_done, res.done)
                       /\ UNCHANGED <<config_vars, ui_vars, eval_vars,
                                      online_net, target_net, epsilon, pc,
                                      step, loss_vars, stats_vars,
                                      logging_vars, sample_pos, sync_events,
                                      pushed, failure>>

\* a local of train() that no assignment has reached
Unbound == -1

\* logging_frequency=None; `if self.logging_frequency` takes None and 0 alike
LoggingOff == 0

\* if self.logging_frequency: (lines 141, 251)
LoggingOn == logging_frequency # LoggingOff

\* lines 124-143
StartMain ==
    /\ pc = "warmup"
    /\ ~WarmupContinues(warm_i)
    /\ Reset
    /\ num_episodes_done' = 0
    /\ episode_reward' = 0
    /\ num_wins' = 0
    /\ num_bids_placed' = 0
    /\ num_episode_steps' = 0
    /\ episode_rewards' = <<>>
    /\ episode_win_rates' = <<>>
    /\ episode_steps' = <<>>
    /\ cumulative_rewards' = 0
    /\ cumulative_wins' = 0
    /\ cumulative_bids_placed' = 0
    /\ cumulative_episode_rewards' = <<>>
    /\ cumulative_episode_win_rates' = <<>>
    /\ num_random_actions' = (IF LoggingOn THEN 0 ELSE num_random_actions)
    /\ num_greedy_actions' = (IF LoggingOn THEN 0 ELSE num_greedy_actions)
    /\ pc' = "main"
    /\ UNCHANGED <<config_vars, ui_vars, eval_vars, agent_vars, warm_i, step,
                   action, bid_price, keyword, bid, loss_vars, reward_buffer,
                   num_logs, observer_vars>>

\* a / b of two counts: the fraction <<a, b>>; Python raises
\* ZeroDivisionError when b is 0
Ratio(a, b) == <<a, b>>

DivisionRaises(a, b) == b = 0

\* (a loop that goes on after the requested number of episodes)
LeavesLoopNever(done, episodes) == FALSE

\* lines 176 and 193: if done: ... if num_episodes_done >= num_episodes: break
LeavesLoop(done, episodes) == done /\ episodes >= num_episodes

\* (a step counter that misses the step that ends the episode)
CountStepLate(n) == n

\* num_episode_steps += 1 (line 173), before the episode is closed
CountStep(n) == n + 1

\* lines 164-196: the statistics of a main-loop step that returned `res`,
\* the close of the episode on done, and where the loop goes next
RecordStep(will_bid, res) ==
    LET reward_now == episode_reward + res.reward
        rewards_sum == cumulative_rewards + res.reward
        bids_now == num_bids_placed + (IF will_bid THEN 1 ELSE 0)
        bids_sum == cumulative_bids_placed + (IF will_bid THEN 1 ELSE 0)
        wins_now == num_wins + (IF will_bid /\ res.win THEN 1 ELSE 0)
        wins_sum == cumulative_wins + (IF will_bid /\ res.win THEN 1 ELSE 0)
        steps_now == CountStep(num_episode_steps)
        episodes_now == num_episodes_done + 1
    IN  /\ cumulative_rewards' = rewards_sum
        /\ cumulative_bids_placed' = bids_sum
        /\ cumulative_wins' = wins_sum
        /\ IF ~res.done
           THEN /\ episode_reward' = reward_now
                /\ num_bids_placed' = bids_now
                /\ num_wins' = wins_now
                /\ num_episode_steps' = steps_now
                /\ pc' = "gradient"
                /\ UNCHANGED <<num_episodes_done, reward_buffer,
                               episode_rewards, episode_win_rates,
                               episode_steps, cumulative_episode_rewards,
                               cumulative_episode_win_rates, failure>>
           ELSE \* lines 177-183 (steps_now and episodes_now are positive)
                /\ num_episodes_done' = episodes_now
                /\ reward_buffer' = DequeAppend(reward_buffer, reward_now,
                                                reward_buffer_size)
                /\ episode_rewards' = Append(episode_rewards, reward_now)
                /\ episode_win_rates' =
                       Append(episode_win_rates, Ratio(wins_now, steps_now))
                /\ episode_steps' = Append(episode_steps, steps_now)
                /\ cumulative_episode_rewards' =
                       Append(cumulative_episode_rewards,
                              Ratio(rewards_sum, episodes_now))
                /\ IF DivisionRaises(wins_sum, bids_sum)
                   THEN \* line 184 raises; the exception leaves train()
                        /\ pc' = "error"
                        /\ failure' = ZeroDivisionError
                        /\ episode_reward' = reward_now
                        /\ num_bids_placed' = bids_now
                        /\ num_wins' = wins_now
                        /\ num_episode_steps' = steps_now
                        /\ UNCHANGED cumulative_episode_win_rates
                   ELSE \* lines 184-196
                        /\ cumulative_episode_win_rates' =
                               Append(cumulative_episode_win_rates,
                                      Ratio(wins_sum, bids_sum))
                        /\ episode_reward' = 0
                        /\ num_wins' = 0
                        /\ num_bids_placed' = 0
                        /\ num_episode_steps' = 0
                        /\ pc' = IF LeavesLoop(res.done, episodes_now)
                                 THEN "done" ELSE "gradient"
                        /\ UNCHANGED failure

\* lines 149-196: choose the action (epsilon-greedy), step the environment,
\* record the transition, close the episode on done and leave the loop when
\* the requested number of episodes is reached
EnvStep ==
    /\ pc = "main"
    /\ step < MaxSteps
    /\ epsilon' = EpsilonAt(step)
    /\ \E explore \in {e \in BOOLEAN : IF e THEN CanExplore(EpsilonAt(step))
                                            ELSE CanExploit(EpsilonAt(step))} :
       IF explore /\ random_action(remaining_budget) = {}
       THEN \* random.randint(1, int(budget)) raises
            /\ pc' = "error"
            /\ failure' = EmptyRangeError
            /\ UNCHANGED <<config_vars, ui_vars, eval_vars, env_vars,
                           replay_buffer, online_net, target_net, warm_i,
                           step, obs, remaining_budget, action, bid_price,
                           keyword, bid, num_episodes_done, loss_vars,
                           stats_vars, logging_vars, env_call, sample_pos,
                           sync_events, num_pushed, pushed, num_env_steps>>
       ELSE
       \E choice \in (IF explore THEN random_action(remaining_budget)
                                 ELSE select_action(obs, remaining_budget)) :
         IF (IF explore THEN num_random_actions ELSE num_greedy_actions)
               = Unbound
         THEN \* num_random_actions += 1 / num_greedy_actions += 1 (lines 152
              \* and 155) on a local that was never assigned
              /\ pc' = "error"
              /\ failure' = UnboundLocalError
              /\ action' = choice[1]
              /\ bid_price' = choice[2]
              /\ UNCHANGED <<config_vars, ui_vars, eval_vars, env_vars,
                             replay_buffer, online_net, target_net, warm_i,
                             step, obs, remaining_budget, keyword, bid,
                             num_episodes_done, loss_vars, stats_vars,
                             logging_vars, env_call, sample_pos, sync_events,
                             num_pushed, pushed, num_env_steps>>
         ELSE
           /\ num_random_actions' = (IF explore THEN num_random_actions + 1
                                                ELSE num_random_actions)
           /\ num_greedy_actions' = (IF explore THEN num_greedy_actions
                                                ELSE num_greedy_actions + 1)
           /\ LET kw == index_to_keyword(choice[1])
              IN  \E res \in run_auction_step(WillBid(kw), kw,
                                              StepPrice(WillBid(kw),
                                                        choice[2])) :
                    IF res.raises
                    THEN /\ Raise(choice, "main", explore, KeywordError)
                         /\ UNCHANGED <<config_vars, ui_vars, eval_vars,
                                        env_vars, replay_buffer, online_net,
                                        target_net, warm_i, step, obs,
                                        remaining_budget, num_episodes_done,
                                        loss_vars, stats_vars, num_logs,
                                        sample_pos, sync_events, num_pushed,
                                        pushed, num_env_steps>>
                    ELSE /\ RecordStep(WillBid(kw), res)
                         /\ Interact(choice, "main", explore, res,
                                     res.done /\ pc' # "error")
                         /\ UNCHANGED <<config_vars, ui_vars, eval_vars,
                                        online_net, target_net, warm_i, step,
                                        loss_vars, num_logs, sample_pos,
                                        sync_events, pushed>>

\* (a sync that counts the steps from 1)
SyncDueOneBased(s) == (s + 1) % target_update_frequency = 0

\* if step % self.target_update_frequency == 0
SyncDue(s) == s % target_update_frequency = 0

\* (a target network that follows every optimizer step)
TargetTrained(s, online_after) == online_after

\* the target network after a gradient step of the main loop: the optimizer
\* steps the online network only, and load_state_dict copies it when due
TargetAfter(s, online_after) ==
    IF SyncDue(s) THEN online_after ELSE target_net

\* (an optimizer that steps twice in an iteration)
OptimizerStepsTwice(net) == net + 2

\* self.optimizer.step(): one step, on the online network only
OptimizerStep(net) == net + 1

\* if self.logging_frequency and step > 0
\*    and step % self.logging_frequency == 0
LogDue(s) == LoggingOn /\ s > 0 /\ s % logging_frequency = 0

\* lines 198-256: sample the minibatch, compute the targets and the loss, take
\* one optimizer step on the online network, sync the target when due, print
\* the log lines when due
GradientStep ==
    /\ pc = "gradient"
    /\ IF SamplePositions(replay_buffer, train_batch_size) = {}
       THEN \* random.sample raises ValueError
            /\ pc' = "error"
            /\ failure' = SampleError
            /\ UNCHANGED <<config_vars, ui_vars, eval_vars, env_vars,
                           agent_vars, warm_i, step, obs, remaining_budget,
                           action, bid_price, keyword, bid, num_episodes_done,
                           loss_vars, stats_vars, logging_vars, env_call,
                           sample_pos, sync_events, num_pushed, pushed,
                           num_env_steps>>
       ELSE \E positions \in SamplePositions(replay_buffer, train_batch_size) :
            \E max_q \in [1..train_batch_size -> q_range] :
            \E q_taken \in [1..train_batch_size -> q_range] :
            \E prices \in [1..train_batch_size -> price_range] :
              LET batch == SampleAt(replay_buffer, positions)
                  tgts == [i \in 1..train_batch_size |->
                             Target(batch[i], max_q[i])]
                  dqn == LossDQN(q_taken, tgts)
                  price == LossPrice(batch, prices)
              IN  /\ sample_pos' = positions
                  /\ transitions' = batch
                  /\ max_target_q_value' = max_q
                  /\ action_q_values' = q_taken
                  /\ bid_prices' = prices
                  /\ targets' = tgts
                  /\ loss_DQN' = dqn
                  /\ loss_price' = price
                  /\ loss_total' = LossTotal(dqn, price)
                  /\ online_net' = OptimizerStep(online_net)
                  /\ target_net' = TargetAfter(step, OptimizerStep(online_net))
                  /\ sync_events' = IF SyncDue(step) THEN sync_events + 1
                                    ELSE sync_events
                  /\ num_logs' = IF LogDue(step) THEN num_logs + 1
                                 ELSE num_logs
                  /\ num_random_actions' = IF LogDue(step) THEN 0
                                           ELSE num_random_actions
                  /\ num_greedy_actions' = IF LogDue(step) THEN 0
                                           ELSE num_greedy_actions
                  /\ step' = step + 1
                  /\ pc' = "main"
                  /\ UNCHANGED <<config_vars, ui_vars, eval_vars, env_vars,
                                 replay_buffer, epsilon, warm_i, obs,
                                 remaining_budget, action, bid_price, keyword,
                                 bid, num_episodes_done, stats_vars, env_call,
                                 num_pushed, pushed, failure, num_env_steps>>


----------------------------------------------------------------------------
(* DQNAgent.evaluate *)

\* a, b, c = t with a t that does not have three items
UnpackError == "ValueError: not enough values to unpack (expected 3, got 2)"

\* (the stored parameters loaded whether or not a path is given)
LoadedNetAlways(path, net) == saved_net

\* if model_save_path: self.online_net.load_state_dict(torch.load(...))
LoadedNet(path, net) == IF path # "None" THEN saved_net ELSE net

\* what learning changes: the replay buffer and the appends to it, the two
\* networks, the load_state_dict calls on the target network
AgentSnapshot ==
    <<replay_buffer, online_net, target_net, sync_events, num_pushed>>

\* lines 272-290: evaluate() is called on an agent that has just been
\* constructed or whose train() has returned
BeginEvaluate ==
    /\ pc \in {"start", "done"}
    /\ before' = AgentSnapshot
    /\ online_net' = LoadedNet(model_save_path, online_net)
    /\ Reset
    /\ episode_reward' = 0
    /\ num_wins' = 0
    /\ num_bids_placed' = 0
    /\ num_episode_steps' = 0
    /\ episode_rewards' = <<>>
    /\ episode_win_rates' = <<>>
    /\ episode_steps' = <<>>
    /\ cumulative_rewards' = 0
    /\ cumulative_wins' = 0
    /\ cumulative_bids_placed' = 0
    /\ cumulative_episode_rewards' = <<>>
    /\ cumulative_episode_win_rates' = <<>>
    /\ episode' = 0
    /\ pc' = "evaluate"
    /\ UNCHANGED <<config_vars, ui_vars, replay_buffer, target_net, epsilon,
                   warm_i, step, action, bid_price, keyword, bid,
                   num_episodes_done, loss_vars, reward_buffer, logging_vars,
                   env_call, sample_pos, sync_events, num_pushed, pushed,
                   failure, num_env_steps>>

\* lines 299-323: the statistics of an evaluation step that returned `res`
\* and the close of the episode on done
EvalRecordStep(will_bid, res) ==
    LET reward_now == episode_reward + res.reward
        rewards_sum == cumulative_rewards + res.reward
        bids_now == num_bids_placed + (IF will_bid THEN 1 ELSE 0)
        bids_sum == cumulative_bids_placed + (IF will_bid THEN 1 ELSE 0)
        wins_now == num_wins + (IF will_bid /\ res.win THEN 1 ELSE 0)
        wins_sum == cumulative_wins + (IF will_bid /\ res.win THEN 1 ELSE 0)
        steps_now == num_episode_steps + 1
    IN  /\ cumulative_rewards' = rewards_sum
        /\ cumulative_bids_placed' = bids_sum
        /\ cumulative_wins' = wins_sum
        /\ IF ~res.done
           THEN /\ episode_reward' = reward_now
                /\ num_bids_placed' = bids_now
                /\ num_wins' = wins_now
                /\ num_episode_steps' = steps_now
                /\ pc' = "evaluate"
                /\ UNCHANGED <<reward_buffer, episode_rewards,
                               episode_win_rates, episode_steps,
                               cumulative_episode_rewards,
                               cumulative_episode_win_rates, failure>>
           ELSE \* lines 312-316
                /\ reward_buffer' = DequeAppend(reward_buffer, reward_now,
                                                reward_buffer_size)
                /\ episode_rewards' = Append(episode_rewards, reward_now)
                /\ episode_win_rates' =
                       Append(episode_win_rates, Ratio(wins_now, steps_now))
                /\ episode_steps' = Append(episode_steps, steps_now)
                /\ cumulative_episode_rewards' =
                       Append(cumulative_episode_rewards,
                              Ratio(rewards_sum,
                                    SumSeq(Append(episode_steps, steps_now))))
                /\ IF DivisionRaises(wins_sum, bids_sum)
                   THEN \* line 317 raises
                        /\ pc' = "error"
                        /\ failure' = ZeroDivisionError
                        /\ episode_reward' = reward_now
                        /\ num_bids_placed' = bids_now
                        /\ num_wins' = wins_now
                        /\ num_episode_steps' = steps_now
                        /\ UNCHANGED cumulative_episode_win_rates
                   ELSE \* lines 317-323
                        /\ cumulative_episode_win_rates' =
                               Append(cumulative_episode_win_rates,
                                      Ratio(wins_sum, bids_sum))
                        /\ episode_reward' = 0
                        /\ num_wins' = 0
                        /\ num_bids_placed' = 0
                        /\ num_episode_steps' = 0
                        /\ pc' = "evaluate"
                        /\ UNCHANGED failure

\* lines 293-323: one pass of `for episode in range(num_episodes)`.  Line 294
\* unpacks what select_action returns into bid, action, bid_price.
EvalStep ==
    /\ pc = "evaluate"
    /\ episode < eval_num_episodes
    /\ \E choice \in select_action(obs, remaining_budget) :
         IF Len(choice) # 3
         THEN \* the unpacking raises; the exception leaves evaluate()
              /\ pc' = "error"
              /\ failure' = UnpackError
              /\ UNCHANGED <<config_vars, ui_vars, env_vars, agent_vars,
                             warm_i, step, obs, remaining_budget, action,
                             bid_price, keyword, bid, num_episodes_done,
                             loss_vars, stats_vars, logging_vars, eval_vars,
                             env_call, sample_pos, sync_events, num_pushed,
                             pushed, num_env_steps>>
         ELSE LET will_bid == choice[1]
                  kw == index_to_keyword(choice[2])
              IN  \E res \in run_auction_step(will_bid, kw, choice[3]) :
                    /\ bid' = will_bid
                    /\ action' = choice[2]
                    /\ bid_price' = choice[3]
                    /\ keyword' = kw
                    /\ env_call' = [bid |-> will_bid, keyword |-> kw,
                                    bid_price |-> choice[3],
                                    action |-> choice[2],
                                    available |-> available,
                                    phase |-> "evaluate", random |-> FALSE,
                                    budget |-> remaining_budget, obs |-> obs,
                                    new_obs |-> obs_seq + 1]
                    /\ IF res.raises
                       THEN /\ pc' = "error"
                            /\ failure' = KeywordError
                            /\ UNCHANGED <<env_vars, obs, remaining_budget,
                                           stats_vars, episode,
                                           num_env_steps>>
                       ELSE /\ EvalRecordStep(will_bid, res)
                            /\ num_env_steps' = num_env_steps + 1
                            /\ episode' = episode + 1
                            /\ obs_seq' = IF res.done /\ pc' # "error"
                                          THEN obs_seq + 2 ELSE obs_seq + 1
                            /\ obs' = obs_seq'
                            /\ remaining_budget' =
                                   IF res.done /\ pc' # "error"
                                   THEN initial_budget
                                   ELSE res.remaining_budget
                            /\ available' \in AvailableSets
                    /\ UNCHANGED <<config_vars, ui_vars, agent_vars, warm_i,
                                   step, num_episodes_done, loss_vars,
                                   logging_vars, before, sample_pos,
                                   sync_events, num_pushed, pushed>>

\* lines 325-334: the loop is over, the record is returned
EvalReturn ==
    /\ pc = "evaluate"
    /\ episode >= eval_num_episodes
    /\ pc' = "evaluated"
    /\ UNCHANGED <<config_vars, ui_vars, env_vars, agent_vars, warm_i, step,
                   obs, remaining_budget, action, bid_price, keyword, bid,
                   num_episodes_done, loss_vars, stats_vars, logging_vars,
                   eval_vars, observer_vars>>

----------------------------------------------------------------------------
(* The manual front ends: src/environment/env.py *)

\* everything the front ends do not touch
agent_side_vars == <<config_vars, env_vars, agent_vars, local_vars, loss_vars,
                     stats_vars, logging_vars, eval_vars, observer_vars>>

\* KEYWORDS (26 letters in the code, 3 here)
KEYWORDS == {"A", "B", "C"}

\* the number of keywords on offer in a cycle (10 in the code)
NumOffered == 2

\* generate_available_keywords(): random.sample(KEYWORDS, 10)
generate_available_keywords ==
    {ks \in SUBSET KEYWORDS : Cardinality(ks) = NumOffered}

\* generate_current_cost(keyword): the competitor's bid
CostRange == {2}

\* the characters a bid can be typed with, and those float() reads as digits
KeyChars == {"1", "3", "x"}

Digits == {"1", "3"}

\* the texts that can be entered as a bid
Texts == UNION {[1..n -> KeyChars] : n \in 0..MaxText}

DigitValue(c) == IF c = "1" THEN 1 ELSE 3

\* float(text) raises ValueError unless the text is a number
FloatRaises(text) ==
    text = <<>> \/ \E i \in 1..Len(text) : text[i] \notin Digits

\* float(text) of a text of digits
RECURSIVE FloatOf(_)
FloatOf(text) ==
    IF text = <<>> THEN 0
    ELSE 10 * FloatOf(SubSeq(text, 1, Len(text) - 1))
           + DigitValue(text[Len(text)])

NameError == "UnboundLocalError: bid amount referenced before assignment"

RectsError == "TypeError: 'function' object is not iterable"

NoStep == [bid_bool |-> FALSE, keyword |-> "None", bid_amount |-> 0,
           entry_is_number |-> TRUE]

\* the front end raised: the exception leaves cli_mode() / gui_mode()
UiRaise(name) ==
    /\ ui_pc' = "error"
    /\ ui_failure' = name

\* step(bid_bool, keyword, bid_amount) (lines 90-125) called from a front
\* end, and the assignment of what it returns
StepCall(bid_bool, kw, amount, entry_is_number) ==
    /\ step_call' = [bid_bool |-> bid_bool, keyword |-> kw,
                     bid_amount |-> amount,
                     entry_is_number |-> entry_is_number]
    /\ num_step_calls' = num_step_calls + 1
    /\ IF bid_bool /\ kw \notin available_keywords
       THEN /\ UiRaise(KeywordError)
            /\ UNCHANGED <<available_keywords, bid_result, sec_bid>>
       ELSE /\ available_keywords' \in generate_available_keywords
            /\ \E competitor_bid \in (IF bid_bool THEN CostRange ELSE {0}) :
                 /\ bid_result' = (IF bid_bool /\ amount > competitor_bid
                                   THEN "won" ELSE "lost")
                 /\ sec_bid' = competitor_bid
            /\ UNCHANGED <<ui_pc, ui_failure>>

\* lines 137-177: one pass of the prompt loop of cli_mode()
CliCycle ==
    /\ ~GUI_FLAG
    /\ ui_pc = "running"
    /\ ui_events < MaxEvents
    /\ ui_events' = ui_events + 1
    /\ \E decision \in {"YES", "NO"} :
         IF decision # "YES"
         THEN \* line 177
              /\ StepCall(FALSE, "None", 0, TRUE)
              /\ UNCHANGED <<bid_amount, selected_keyword, message>>
         ELSE \E kw \in KEYWORDS \cup {"EXIT"} :
              IF kw = "EXIT"
              THEN \* lines 153-154
                   /\ ui_pc' = "quit"
                   /\ selected_keyword' = kw
                   /\ UNCHANGED <<available_keywords, bid_amount, message,
                                  bid_result, sec_bid, step_call,
                                  num_step_calls, ui_failure>>
              ELSE IF kw \notin available_keywords
              THEN \* lines 156-158
                   /\ message' = "Invalid keyword! Try again."
                   /\ selected_keyword' = kw
                   /\ UNCHANGED <<available_keywords, bid_amount, bid_result,
                                  sec_bid, ui_pc, step_call, num_step_calls,
                                  ui_failure>>
              ELSE \E text \in Texts :
                   \* lines 161-167: the except clause prints and falls
                   \* through to the step
                   /\ selected_keyword' = kw
                   /\ bid_amount' = (IF FloatRaises(text) THEN bid_amount
                                                       ELSE FloatOf(text))
                   /\ message' = (IF FloatRaises(text)
                                  THEN "Please enter a valid bid amount."
                                  ELSE message)
                   /\ IF bid_amount' = Unbound
                      THEN /\ UiRaise(NameError)
                           /\ UNCHANGED <<available_keywords, bid_result,
                                          sec_bid, step_call, num_step_calls>>
                      ELSE StepCall(TRUE, kw, bid_amount', ~FloatRaises(text))
    /\ UNCHANGED <<GUI_FLAG, player_bid, keyword_rects>>
    /\ UNCHANGED agent_side_vars

\* generate_rectangles(): one button per keyword on offer
generate_rectangles(keywords) == [callable |-> FALSE, keywords |-> keywords]

\* keyword_rects = generate_rectangles (line 267): the function, not a list
generate_rectangles_itself == [callable |-> TRUE, keywords |-> {}]

\* the events pygame can deliver
GuiEvents ==
    {[type |-> "QUIT", at |-> "None"]}
    \cup {[type |-> "KEYDOWN", at |-> k] :
            k \in {"RETURN", "BACKSPACE"} \cup KeyChars}
    \cup {[type |-> "MOUSEBUTTONDOWN", at |-> t] :
            t \in KEYWORDS \cup {"SKIP"}}

\* lines 221-295: one frame of gui_mode(): the drawing, then one event
GuiFrame ==
    /\ GUI_FLAG
    /\ ui_pc = "running"
    /\ ui_events < MaxEvents
    /\ ui_events' = ui_events + 1
    /\ IF keyword_rects.callable
       THEN \* for keyword, rect in keyword_rects (line 230)
            /\ UiRaise(RectsError)
            /\ UNCHANGED <<available_keywords, bid_amount, selected_keyword,
                           player_bid, keyword_rects, message, bid_result,
                           sec_bid, step_call, num_step_calls>>
       ELSE \E event \in GuiEvents :
            CASE event.type = "QUIT" ->
                   /\ ui_pc' = "quit"
                   /\ UNCHANGED <<available_keywords, bid_amount,
                                  selected_keyword, player_bid, keyword_rects,
                                  message, bid_result, sec_bid, step_call,
                                  num_step_calls, ui_failure>>
              [] event.type = "KEYDOWN" /\ selected_keyword = "None" ->
                   UNCHANGED <<available_keywords, bid_amount,
                               selected_keyword, player_bid, keyword_rects,
                               message, bid_result, sec_bid, ui_pc, step_call,
                               num_step_calls, ui_failure>>
              [] event.type = "KEYDOWN" /\ selected_keyword # "None"
                   /\ event.at = "RETURN" ->
                   \* lines 259-271: the except clause sets the message and
                   \* falls through to the step
                   /\ bid_amount' = (IF FloatRaises(player_bid) THEN bid_amount
                                     ELSE FloatOf(player_bid))
                   /\ message' = (IF FloatRaises(player_bid)
                                  THEN "Invalid bid amount." ELSE message)
                   /\ IF bid_amount' = Unbound
                      THEN /\ UiRaise(NameError)
                           /\ UNCHANGED <<available_keywords,
                                          selected_keyword, player_bid,
                                          keyword_rects, bid_result, sec_bid,
                                          step_call, num_step_calls>>
                      ELSE /\ StepCall(TRUE, selected_keyword, bid_amount',
                                       ~FloatRaises(player_bid))
                           /\ IF ui_pc' = "error"
                              THEN UNCHANGED <<selected_keyword, player_bid,
                                               keyword_rects>>
                              ELSE /\ keyword_rects' = generate_rectangles_itself
                                   /\ player_bid' = <<>>
                                   /\ selected_keyword' = "None"
              [] event.type = "KEYDOWN" /\ selected_keyword # "None"
                   /\ event.at = "BACKSPACE" ->
                   /\ player_bid' = SubSeq(player_bid, 1, Len(player_bid) - 1)
                   /\ UNCHANGED <<available_keywords, bid_amount,
                                  selected_keyword, keyword_rects, message,
                                  bid_result, sec_bid, ui_pc, step_call,
                                  num_step_calls, ui_failure>>
              [] event.type = "KEYDOWN" /\ selected_keyword # "None"
                   /\ event.at \in KeyChars ->
                   /\ Len(player_bid) < MaxText
                   /\ player_bid' = Append(player_bid, event.at)
                   /\ UNCHANGED <<available_keywords, bid_amount,
                                  selected_keyword, keyword_rects, message,
                                  bid_result, sec_bid, ui_pc, step_call,
                                  num_step_calls, ui_failure>>
              [] event.type = "MOUSEBUTTONDOWN" /\ event.at = "SKIP" ->
                   \* lines 289-293
                   /\ StepCall(FALSE, "None", 0, TRUE)
                   /\ keyword_rects' = generate_rectangles(available_keywords')
                   /\ message' = "New keywords generated for next cycle."
                   /\ UNCHANGED <<bid_amount, selected_keyword, player_bid>>
              [] event.type = "MOUSEBUTTONDOWN" /\ event.at # "SKIP" ->
                   \* lines 283-286: a click on a keyword button, or beside
                   /\ selected_keyword' =
                          (IF event.at \in keyword_rects.keywords
                           THEN event.at ELSE selected_keyword)
                   /\ player_bid' =
                          (IF event.at \in keyword_rects.keywords
                           THEN <<>> ELSE player_bid)
                   /\ UNCHANGED <<available_keywords, bid_amount,
                                  keyword_rects, message, bid_result, sec_bid,
                                  ui_pc, step_call, num_step_calls,
                                  ui_failure>>
    /\ UNCHANGED GUI_FLAG
    /\ UNCHANGED agent_side_vars

----------------------------------------------------------------------------
(* Initial states: the agent as DQNAgent.__init__ leaves it *)

\* the arguments of DQNAgent(...), AuctionSimulator(...) and train(...)
Configure(c) ==
    /\ replay_buffer_size = c.replay_buffer_size
    /\ min_replay_size = c.min_replay_size
    /\ train_batch_size = c.train_batch_size
    /\ target_update_frequency = c.target_update_frequency
    /\ epsilon_start = c.epsilon_start
    /\ epsilon_end = c.epsilon_end
    /\ epsilon_decay_period = c.epsilon_decay_period
    /\ gamma = c.gamma
    /\ weight_DQN_loss = c.weight_DQN_loss
    /\ weight_price_loss = c.weight_price_loss
    /\ reward_buffer_size = c.reward_buffer_size
    /\ logging_frequency = c.logging_frequency
    /\ num_episodes = c.num_episodes
    /\ eval_num_episodes = c.eval_num_episodes
    /\ model_save_path = c.model_save_path
    /\ saved_net = c.saved_net
    /\ keyword_list = c.keyword_list
    /\ initial_budget = c.initial_budget
    /\ offer_range = c.offer_range
    /\ reward_range = c.reward_range
    /\ competitor_range = c.competitor_range
    /\ budget_unit = c.budget_unit
    /\ q_range = c.q_range
    /\ price_range = c.price_range

\* the front ends of env.py before setup(): lines 185-191 of gui_mode()
InterfaceLocals ==
    /\ bid_amount = Unbound
    /\ selected_keyword = "None"
    /\ player_bid = <<>>
    /\ message = "click SKIP for skipping this Bid Cycle!"
    /\ bid_result = "None"
    /\ sec_bid = 0
    /\ ui_events = 0
    /\ step_call = NoStep
    /\ num_step_calls = 0
    /\ ui_failure = "none"

\* the agent's runs do not start a front end
NoInterface ==
    /\ InterfaceLocals
    /\ GUI_FLAG = FALSE
    /\ available_keywords = {}
    /\ keyword_rects = generate_rectangles({})
    /\ ui_pc = "off"

\* the locals of train() before the main loop assigns them
NoStatistics ==
    /\ episode_reward = 0
    /\ num_wins = 0
    /\ num_bids_placed = 0
    /\ num_episode_steps = 0
    /\ episode_rewards = <<>>
    /\ episode_win_rates = <<>>
    /\ episode_steps = <<>>
    /\ cumulative_rewards = 0
    /\ cumulative_wins = 0
    /\ cumulative_bids_placed = 0
    /\ cumulative_episode_rewards = <<>>
    /\ cumulative_episode_win_rates = <<>>
    /\ num_logs = 0
    /\ episode = 0
    /\ before = <<>>

\* lines 53-81: an empty replay buffer, a reward buffer holding one 0, two
\* networks with the same parameters (one load_state_dict), epsilon at
\* epsilon_start
Constructed ==
    /\ NoStatistics
    /\ reward_buffer = DequeAppend(<<>>, 0, reward_buffer_size)
    /\ num_random_actions = Unbound
    /\ num_greedy_actions = Unbound
    /\ replay_buffer = <<>>
    /\ online_net = 0
    /\ target_net = 0
    /\ sync_events = 1
    /\ epsilon = epsilon_start * epsilon_decay_period
    /\ available = {}
    /\ obs_seq = 0
    /\ obs = 0
    /\ remaining_budget = 0
    /\ warm_i = 0
    /\ step = 0
    /\ action = 0
    /\ bid_price = 0
    /\ keyword = "None"
    /\ bid = FALSE
    /\ num_episodes_done = 0
    /\ transitions = <<>>
    /\ max_target_q_value = <<>>
    /\ action_q_values = <<>>
    /\ bid_prices = <<>>
    /\ targets = <<>>
    /\ loss_DQN = 0
    /\ loss_price = 0
    /\ loss_total = 0
    /\ env_call = NoCall
    /\ sample_pos = <<>>
    /\ num_pushed = 0
    /\ num_env_steps = 0
    /\ pushed = <<>>
    /\ failure = "none"

\* the defaults of __init__ (lines 47-52) where the model does not vary them,
\* on a one-keyword simulator
BaseConfig ==
    [replay_buffer_size |-> MaxSize, min_replay_size |-> 1,
     train_batch_size |-> 1, target_update_frequency |-> 1,
     epsilon_start |-> 100, epsilon_end |-> 1, epsilon_decay_period |-> 2,
     gamma |-> 75, weight_DQN_loss |-> 1, weight_price_loss |-> 1,
     reward_buffer_size |-> 2, logging_frequency |-> 1, budget_unit |-> 1,
     num_episodes |-> 1, eval_num_episodes |-> 1, model_save_path |-> "None",
     saved_net |-> 0, keyword_list |-> <<"A">>, initial_budget |-> 1,
     offer_range |-> {{"A"}}, reward_range |-> {1}, competitor_range |-> {0},
     q_range |-> {0},
     price_range |-> {1}]

\* the values of train_batch_size
BatchSizes == {1, 2}

\* every combination of the sizes, the sync frequency and the episode count
TrainConfigs ==
    {[BaseConfig EXCEPT !.replay_buffer_size = c, !.min_replay_size = w,
                        !.train_batch_size = b,
                        !.target_update_frequency = f, !.num_episodes = n] :
        c \in 1..(MaxSize + 1), w \in 0..MaxSize, b \in BatchSizes,
        f \in 1..MaxFreq, n \in 1..MaxEpisodes}

Init ==
    /\ \E c \in TrainConfigs : Configure(c)
    /\ Constructed
    /\ NoInterface
    /\ pc = "start"

Next ==
    \/ BeginTrain
    \/ WarmupStep
    \/ StartMain
    \/ EnvStep
    \/ GradientStep

Spec == Init /\ [][Next]_vars


----------------------------------------------------------------------------
(* The action gate on a two-keyword simulator whose offer changes from     *)
(* round to round                                                          *)

GateConfigs ==
    {[BaseConfig EXCEPT !.keyword_list = <<"A", "B">>, !.initial_budget = 2,
                        !.offer_range = {{"A"}, {"B"}},
                        !.competitor_range = {1}, !.price_range = {-1, 3},
                        !.replay_buffer_size = 1, !.num_episodes = n] :
        n \in 1..MaxEpisodes}

InitGate ==
    /\ \E c \in GateConfigs : Configure(c)
    /\ Constructed
    /\ NoInterface
    /\ pc = "start"

SpecGate == InitGate /\ [][Next]_vars

----------------------------------------------------------------------------
(* The epsilon schedule over its parameters *)

\* epsilon values in hundredths; epsilon decays (lines 36-38), so
\* epsilon_end is at most epsilon_start
EpsilonValues == {0, 1, 50, 100}

EpsilonConfigs ==
    {[BaseConfig EXCEPT !.epsilon_start = se[1], !.epsilon_end = se[2],
                        !.epsilon_decay_period = p] :
        se \in {x \in EpsilonValues \X EpsilonValues : x[2] <= x[1]},
        p \in 1..MaxPeriod}

InitEpsilon ==
    /\ \E c \in EpsilonConfigs : Configure(c)
    /\ Constructed
    /\ NoInterface
    /\ pc = "start"

SpecEpsilon == InitEpsilon /\ [][Next]_vars

----------------------------------------------------------------------------
(* evaluate() on a fresh agent or after train() has returned *)

EvaluateConfigs ==
    {[BaseConfig EXCEPT !.eval_num_episodes = n, !.model_save_path = path,
                        !.saved_net = stored, !.target_update_frequency = f] :
        n \in 0..MaxEpisodes, path \in {"None", "model.pth"},
        stored \in {0, 1}, f \in 1..MaxFreq}

InitEvaluate ==
    /\ \E c \in EvaluateConfigs : Configure(c)
    /\ Constructed
    /\ NoInterface
    /\ pc = "start"

NextEvaluate ==
    \/ BeginTrain
    \/ WarmupStep
    \/ StartMain
    \/ EnvStep
    \/ GradientStep
    \/ BeginEvaluate
    \/ EvalStep
    \/ EvalReturn

SpecEvaluate == InitEvaluate /\ [][NextEvaluate]_vars

----------------------------------------------------------------------------
(* train() over the values of logging_frequency *)

LoggingConfigs ==
    {[BaseConfig EXCEPT !.logging_frequency = lf, !.num_episodes = n] :
        lf \in {LoggingOff} \cup (1..MaxFreq), n \in 1..MaxEpisodes}

InitLogging ==
    /\ \E c \in LoggingConfigs : Configure(c)
    /\ Constructed
    /\ NoInterface
    /\ pc = "start"

SpecLogging == InitLogging /\ [][Next]_vars

----------------------------------------------------------------------------
(* The manual front ends, in either mode, from setup() on *)

InitInterface ==
    /\ Configure(BaseConfig)
    /\ Constructed
    /\ pc = "start"
    /\ InterfaceLocals
    /\ GUI_FLAG \in BOOLEAN
    /\ available_keywords \in generate_available_keywords
    /\ keyword_rects = generate_rectangles(available_keywords)
    /\ ui_pc = "running"

NextInterface ==
    \/ CliCycle
    \/ GuiFrame

SpecInterface == InitInterface /\ [][NextInterface]_vars

----------------------------------------------------------------------------
(* train() on a simulator whose budget is spent in halves: budget_unit is  *)
(* 2, the budget of an episode is 1.5, the price head can say -0.5, 0.5 or *)
(* 3.5 and every bid wins at the price bid                                 *)

BudgetConfigs ==
    {[BaseConfig EXCEPT !.budget_unit = 2, !.initial_budget = 3,
                        !.price_range = {-1, 1, 7}, !.replay_buffer_size = 1,
                        !.num_episodes = n] :
        n \in 1..MaxEpisodes}

InitBudget ==
    /\ \E c \in BudgetConfigs : Configure(c)
    /\ Constructed
    /\ NoInterface
    /\ pc = "start"

SpecBudget == InitBudget /\ [][Next]_vars

----------------------------------------------------------------------------
(* The replay buffer on its own: any sequence of appends *)

\* transitions to append: <<obs, action, reward, competitor bid, done, new_obs>>
BufferTransitions ==
    {<<0, a, 1, 0, d, 1>> : a \in {0, 1}, d \in BOOLEAN}

\* self.replay_buffer.append(transition) (lines 117 and 162)
BufferAppend ==
    /\ pc = "buffer"
    /\ num_pushed < MaxPushes
    /\ \E t \in BufferTransitions :
         /\ replay_buffer' = DequeAppend(replay_buffer, t, replay_buffer_size)
         /\ pushed' = Append(pushed, t)
    /\ num_pushed' = num_pushed + 1
    /\ UNCHANGED <<config_vars, ui_vars, eval_vars, env_vars, online_net,
                   target_net, epsilon, local_vars, loss_vars, stats_vars,
                   logging_vars, env_call, sample_pos, sync_events, failure,
                   num_env_steps>>

InitBuffer ==
    /\ \E c \in 0..(MaxSize + 1) :
         Configure([BaseConfig EXCEPT !.replay_buffer_size = c])
    /\ Constructed
    /\ NoInterface
    /\ pc = "buffer"

NextBuffer == BufferAppend

SpecBuffer == InitBuffer /\ [][NextBuffer]_vars

----------------------------------------------------------------------------
(* One gradient step over the minibatches it can be given *)

\* the transitions a replay buffer can hold when a gradient step starts: a
\* skipped round has no competitor bid
LossTransitions ==
    {<<0, a, r, h, d, 1>> :
        a \in {0, 1}, r \in {-1, 5}, h \in {0, 2}, d \in BOOLEAN}

LossConfigs ==
    {[BaseConfig EXCEPT !.gamma = g, !.train_batch_size = b,
                        !.weight_DQN_loss = wd, !.weight_price_loss = wp,
                        !.reward_range = {-1, 5}, !.competitor_range = {2},
                        !.q_range = {-1, 10}, !.price_range = {1, 4}] :
        g \in {0, 90, 100}, b \in BatchSizes, wd \in {1, 2}, wp \in {1, 2}}

InitLoss ==
    /\ \E c \in LossConfigs : Configure(c)
    /\ NoStatistics
    /\ NoInterface
    /\ reward_buffer = DequeAppend(<<>>, 0, reward_buffer_size)
    /\ num_random_actions = 0
    /\ num_greedy_actions = 0
    /\ replay_buffer \in
         UNION {[1..n -> {t \in LossTransitions : t[2] = 0 => t[4] = 0}] :
                  n \in {train_batch_size}}
    /\ online_net = 0
    /\ target_net = 0
    /\ sync_events = 1
    /\ epsilon = epsilon_start * epsilon_decay_period
    /\ available = {"A"}
    /\ obs_seq = 1
    /\ obs = 1
    /\ remaining_budget = initial_budget
    /\ warm_i = min_replay_size
    /\ step = 0
    /\ action = 0
    /\ bid_price = 0
    /\ keyword = "None"
    /\ bid = FALSE
    /\ num_episodes_done = 0
    /\ transitions = <<>>
    /\ max_target_q_value = <<>>
    /\ action_q_values = <<>>
    /\ bid_prices = <<>>
    /\ targets = <<>>
    /\ loss_DQN = 0
    /\ loss_price = 0
    /\ loss_total = 0
    /\ env_call = NoCall
    /\ sample_pos = <<>>
    /\ num_pushed = Len(replay_buffer)
    /\ num_env_steps = Len(replay_buffer)
    /\ pushed = <<>>
    /\ failure = "none"
    /\ pc = "gradient"

NextLoss == GradientStep

SpecLoss == InitLoss /\ [][NextLoss]_vars


----------------------------------------------------------------------------
(* Properties *)

Min(a, b) == IF a <= b THEN a ELSE b

Range(s) == {s[i] : i \in 1..Len(s)}

\* C1 (SpecBuffer): after k appends to a replay buffer of capacity C the
\* buffer holds exactly min(k, C) transitions, and they are the last
\* min(k, C) transitions appended, in the order they were appended.
BufferCapacity ==
    LET k == Len(pushed)
        held == Min(k, replay_buffer_size)
    IN  /\ num_pushed = k
        /\ Len(replay_buffer) = held
        /\ replay_buffer = SubSeq(pushed, k - held + 1, k)

\* more appends than the capacity, and the evicted transition differs from
\* the ones kept
BufferCapacityWitness ==
    /\ replay_buffer_size >= 2
    /\ Len(pushed) >= replay_buffer_size + 2
    /\ pushed[1] \notin Range(replay_buffer)
    /\ replay_buffer[1] # replay_buffer[2]

\* C2 (Spec): whenever the main loop is about to take a gradient step, the
\* replay buffer holds at least train_batch_size transitions.
NeverUnderfilled ==
    pc = "gradient" => Len(replay_buffer) >= train_batch_size

\* C3 (Spec): a minibatch that has just been drawn has train_batch_size
\* transitions read at pairwise distinct positions of the replay buffer as
\* it is; a draw from a buffer holding fewer than train_batch_size
\* transitions ends the run with an error and leaves no minibatch, and a
\* minibatch is never short.
SamplingValid ==
    /\ (pc = "main" /\ step > 0) =>
         /\ Len(sample_pos) = train_batch_size
         /\ Len(transitions) = train_batch_size
         /\ Len(replay_buffer) >= train_batch_size
         /\ \A i \in 1..Len(sample_pos) :
              /\ sample_pos[i] \in 1..Len(replay_buffer)
              /\ transitions[i] = replay_buffer[sample_pos[i]]
         /\ \A i, j \in 1..Len(sample_pos) :
              i # j => sample_pos[i] # sample_pos[j]
    /\ failure = SampleError =>
         /\ pc = "error"
         /\ Len(replay_buffer) < train_batch_size
         /\ transitions = <<>>
    /\ Len(transitions) \in {0, train_batch_size}

\* a minibatch of two drawn out of order from a buffer of three
SamplingValidWitness ==
    /\ pc = "main"
    /\ step > 0
    /\ train_batch_size = 2
    /\ Len(replay_buffer) = 3
    /\ sample_pos[1] > sample_pos[2]
    /\ transitions[1] # transitions[2]

\* C4 (Spec): the target network's parameters are the online network's as
\* they were at the most recent hard update, or the ones of construction
\* when the loop has not synced yet: after g gradient steps the last sync
\* was in the iteration with the largest multiple of
\* target_update_frequency below g, and gradient steps since then have
\* changed the online network only.
TargetSyncExact ==
    /\ target_net =
         IF online_net = 0 THEN 0
         ELSE ((online_net - 1) \div target_update_frequency)
                  * target_update_frequency + 1
    /\ target_net <= online_net

\* a gradient step after a sync has moved the online network off the target
TargetSyncExactWitness ==
    /\ target_net > 0
    /\ online_net > target_net
    /\ sync_events >= 2

\* C5 (SpecGate): in every environment step train issues, will_bid is true
\* exactly when the action index is above 0 and its keyword is on offer; the
\* environment is never asked to bid on a keyword that is not on offer and
\* never refuses a step.
ActionGate ==
    /\ env_call.phase # "none" =>
         /\ env_call.bid <=>
              (/\ env_call.action > 0
               /\ keyword_list[env_call.action] \in env_call.available)
         /\ env_call.bid => env_call.keyword \in env_call.available
    /\ failure # KeywordError

\* a main-loop step that chose a keyword that was not on offer and went on
ActionGateWitness ==
    /\ env_call.phase = "main"
    /\ env_call.action > 0
    /\ env_call.keyword \notin env_call.available
    /\ ~env_call.bid
    /\ pc = "gradient"

\* C6 (SpecGate): a step whose action index points to a keyword that is not
\* on offer reaches the environment with will_bid false and bid_price 0.
PriceNormalized ==
    (/\ env_call.phase # "none"
     /\ env_call.action > 0
     /\ env_call.keyword \notin env_call.available)
    => (~env_call.bid /\ env_call.bid_price = 0)

\* C7 (SpecEpsilon): epsilon is the linear interpolation from epsilon_start
\* at step 0 to epsilon_end at step epsilon_decay_period, it never grows
\* over 0..epsilon_decay_period, and from epsilon_decay_period on it is
\* epsilon_end; the value the main loop has just computed is that one.
\* (Values are numerators over epsilon_decay_period.)
EpsilonSchedule ==
    LET P == epsilon_decay_period
        Line(s) == epsilon_start * (P - s) + epsilon_end * s
    IN  /\ EpsilonAt(0) = epsilon_start * P
        /\ EpsilonAt(P) = epsilon_end * P
        /\ \A s \in 0..P : EpsilonAt(s) = Line(s)
        /\ \A s1, s2 \in 0..P : s1 < s2 => EpsilonAt(s1) >= EpsilonAt(s2)
        /\ \A s \in P..(P + MaxSteps) : EpsilonAt(s) = epsilon_end * P
        /\ pc \in {"gradient", "done"} =>
             epsilon = IF step >= P THEN epsilon_end * P ELSE Line(step)

\* the main loop past the decay period, epsilon held at epsilon_end
EpsilonScheduleWitness ==
    /\ pc = "gradient"
    /\ step > epsilon_decay_period
    /\ epsilon_start > epsilon_end
    /\ epsilon = epsilon_end * epsilon_decay_period

\* C8 (SpecLoss): the target of every sampled transition is
\* reward + gamma * (1 - done) * max_target_q_value; it is the reward alone
\* when done is true or gamma is 0; reward 5, gamma 0.9, not done and a
\* maximum of 10 give 14.  (Targets and gamma are in hundredths.)
TargetComputation ==
    pc = "main" =>
      /\ Len(targets) = Len(transitions)
      /\ \A i \in 1..Len(transitions) :
           LET r == transitions[i][3]
               d == transitions[i][5]
               m == max_target_q_value[i]
           IN  /\ targets[i] = 100 * r + gamma * (IF d THEN 0 ELSE 1) * m
               /\ (d \/ gamma = 0) => targets[i] = 100 * r
               /\ (r = 5 /\ gamma = 90 /\ ~d /\ m = 10) => targets[i] = 1400

\* the example of the claim beside a finished transition in one minibatch
TargetComputationWitness ==
    /\ pc = "main"
    /\ gamma = 90
    /\ Len(transitions) = 2
    /\ transitions[1][3] = 5 /\ ~transitions[1][5]
    /\ max_target_q_value[1] = 10 /\ targets[1] = 1400
    /\ transitions[2][5] /\ max_target_q_value[2] = 10
    /\ targets[2] = 100 * transitions[2][3]

\* C9 (SpecLoss): a transition with no competitor bid adds nothing to the
\* price loss; the price loss of a minibatch of skipped rounds is 0 and its
\* total loss is weight_DQN_loss times the keyword-selection loss.
PriceLossMasked ==
    pc = "main" =>
      /\ loss_price =
           SumSeq([i \in 1..Len(transitions) |->
                     IF transitions[i][4] = 0 THEN 0
                     ELSE SmoothL1(100 * (bid_prices[i]
                                            - (transitions[i][4] + 1)))])
      /\ (\A i \in 1..Len(transitions) : transitions[i][4] = 0) =>
           /\ loss_price = 0
           /\ loss_total = weight_DQN_loss * loss_DQN

\* a minibatch of skipped rounds whose predicted prices are off the padded
\* price, with a keyword-selection loss to weigh
PriceLossMaskedWitness ==
    /\ pc = "main"
    /\ Len(transitions) = 2
    /\ \A i \in 1..2 : transitions[i][4] = 0 /\ bid_prices[i] # price_pad
    /\ loss_DQN > 0
    /\ weight_DQN_loss = 2
    /\ loss_total = 2 * loss_DQN

\* C10 as stated (Spec): a run whose main loop took total_steps environment
\* steps has performed floor(total_steps / F) + 1 synchronizations, with or
\* without the one of construction.
SyncCountClaimed ==
    pc = "done" =>
      LET total_steps == step + 1
          claimed == (total_steps \div target_update_frequency) + 1
      IN  sync_events = claimed \/ sync_events - 1 = claimed

\* C10 as amended (Spec): the loop syncs in the iterations 0, F, 2F, ... up
\* to total_steps - 2, the last iteration leaving the loop before its
\* gradient step: ceil((total_steps - 1) / F) synchronizations, and one more
\* at construction.
SyncCountExact ==
    pc = "done" =>
      LET total_steps == step + 1
          F == target_update_frequency
      IN  sync_events = 1 + ((total_steps - 1) + (F - 1)) \div F

\* a finished run of two episodes that synced twice in the loop at F = 2
SyncCountExactWitness ==
    /\ pc = "done"
    /\ target_update_frequency = 2
    /\ num_episodes_done = 2
    /\ sync_events = 3

\* the five lists of the record train() and evaluate() return
RecordLists ==
    <<episode_rewards, episode_win_rates, cumulative_episode_rewards,
      cumulative_episode_win_rates, episode_steps>>

\* C11 (Spec): when train returns, num_episodes_done is num_episodes, each
\* of the five lists of the returned record holds num_episodes entries, and
\* the last environment step is the one that reported done; while the main
\* loop runs, fewer than num_episodes episodes are done and each list has
\* one entry per episode done.
EpisodeCount ==
    /\ pc = "done" =>
         /\ num_episodes_done = num_episodes
         /\ \A i \in 1..5 : Len(RecordLists[i]) = num_episodes
         /\ replay_buffer[Len(replay_buffer)][5]
         /\ replay_buffer[Len(replay_buffer)][1] = env_call.obs
    /\ pc \in {"main", "gradient"} =>
         /\ num_episodes_done < num_episodes
         /\ \A i \in 1..5 : Len(RecordLists[i]) = num_episodes_done

\* a run of two episodes returned, the second episode two steps long
EpisodeCountWitness ==
    /\ pc = "done"
    /\ num_episodes = 2
    /\ num_episodes_done = 2
    /\ Len(episode_steps) = 2
    /\ episode_steps[2] = 2

\* C12 (Spec): the close of an episode never raises a division by zero: when
\* a step reports done and no bid has been placed, in the episode or in the
\* run so far, both win rates are recorded and the run goes on.
WinRateGuarded ==
    /\ failure # ZeroDivisionError
    /\ Len(cumulative_episode_win_rates) = Len(episode_win_rates)

\* C13 (SpecEvaluate): evaluate is not ended by an exception, and the record
\* it returns holds eval_num_episodes entries in each of its five lists.
EvaluateEpisodes ==
    /\ failure # UnpackError
    /\ pc = "evaluated" =>
         \A i \in 1..5 : Len(RecordLists[i]) = eval_num_episodes

LoggingTransparent ==
    /\ failure # UnboundLocalError
    /\ ~LoggingOn => num_logs = 0

\* C16 (SpecInterface): in the CLI and in the GUI, step is never called for
\* a bid entry that is not a number, and such an entry never ends the front
\* end with an exception.
MalformedBidRecovered ==
    /\ step_call.entry_is_number
    /\ ui_failure # NameError

\* C17 as stated (Spec): when train returns, the number of gradient steps
\* equals the number of main-loop environment steps.
GradientPerStepClaimed ==
    pc = "done" => online_net = num_env_steps - warm_i

\* C17 as amended (Spec): every main-loop environment step but the one that
\* ends the last episode is followed by exactly one optimizer step before
\* the next environment step: at the top of the loop the two counts are
\* equal, between an environment step and its gradient step the
\* environment is one ahead, and it is still one ahead when train returns.
GradientPerStep ==
    LET main_steps == num_env_steps - warm_i
    IN  /\ pc = "main" => online_net = main_steps /\ step = main_steps
        /\ pc = "gradient" => online_net = main_steps - 1
        /\ pc = "done" => online_net = main_steps - 1 /\ step = main_steps - 1

\* a returned run of two episodes: three environment steps of the main loop,
\* the first of them ending an episode, and two gradient steps
GradientPerStepWitness ==
    /\ pc = "done"
    /\ episode_steps = <<1, 2>>
    /\ num_env_steps - warm_i = 3
    /\ online_net = 2

\* C18 (Spec): the appends to the replay buffer are as many as the
\* environment steps taken, in warmup and in the main loop together; the
\* transition appended last holds the observation its action was chosen on,
\* that action, and the observation the step returned; and along the buffer
\* each transition starts where the one before it ended or at a later reset.
TransitionRecorded ==
    /\ num_pushed = num_env_steps
    /\ Len(replay_buffer) = Min(num_pushed, replay_buffer_size)
    /\ (env_call.phase # "none" /\ failure # KeywordError) =>
         LET last == replay_buffer[Len(replay_buffer)]
         IN  /\ last[1] = env_call.obs
             /\ last[2] = env_call.action
             /\ last[6] = env_call.new_obs
             /\ last[6] # last[1]
    /\ \A i \in 1..(Len(replay_buffer) - 1) :
         /\ replay_buffer[i + 1][1] >= replay_buffer[i][6]
         /\ replay_buffer[i][5] => replay_buffer[i + 1][1] > replay_buffer[i][6]

\* a warmup step and two main-loop steps, a random one and a greedy one, all
\* three in the buffer, the greedy one continuing the episode of the random
\* one
TransitionRecordedWitness ==
    /\ warm_i = 1
    /\ num_env_steps = 3
    /\ Len(replay_buffer) = 3
    /\ env_call.phase = "main"
    /\ ~env_call.random
    /\ replay_buffer[3][1] = replay_buffer[2][6]
    /\ replay_buffer[3][1] = env_call.obs

\* C19 (Spec): warmup takes min_replay_size environment steps, each with a
\* random action, and changes neither network: during warmup the online and
\* target parameters are those of construction and only the construction
\* has synced; the main loop starts after exactly min_replay_size steps; and
\* a gradient step has only happened once warmup is complete.
WarmupNoLearning ==
    /\ pc = "warmup" =>
         /\ warm_i <= min_replay_size
         /\ num_env_steps = warm_i
         /\ online_net = 0 /\ target_net = 0 /\ sync_events = 1
         /\ transitions = <<>>
         /\ env_call.phase = "warmup" => env_call.random
    /\ (pc = "main" /\ step = 0) =>
         /\ num_env_steps = min_replay_size
         /\ online_net = 0 /\ target_net = 0 /\ sync_events = 1
    /\ pc \in {"main", "gradient", "done"} => warm_i = min_replay_size
    /\ online_net > 0 => warm_i = min_replay_size

\* the end of a warmup of two steps, the first of which closed an episode
WarmupNoLearningWitness ==
    /\ pc = "main"
    /\ step = 0
    /\ min_replay_size = 2
    /\ num_env_steps = 2
    /\ Len(replay_buffer) = 2
    /\ replay_buffer[1][5]
    /\ online_net = 0

\* the price bounds of a main-loop step: a random price is a whole number of
\* currency units from 1 up to the remaining budget, a greedy price lies in
\* [0, remaining budget], the action index in [0, action_space_dim - 1]
PriceWithinBudget ==
    env_call.phase = "main" =>
      /\ env_call.action \in 0..(get_action_space_dim - 1)
      /\ env_call.bid_price <= env_call.budget
      /\ env_call.random =>
           /\ env_call.bid_price >= budget_unit
           /\ env_call.bid_price % budget_unit = 0
      /\ ~env_call.random => env_call.bid_price >= 0

\* C20 (SpecBudget): every main-loop step hands the environment a price
\* within the remaining budget the preceding step or reset reported and an
\* action index within the action space, and choosing the action never
\* raises, whatever budget the environment reported.
BidPriceBounds ==
    /\ PriceWithinBudget
    /\ failure # EmptyRangeError

\* two fractions that are the same number
SameRatio(r, q) == r[2] # 0 /\ q[2] # 0 /\ r[1] * q[2] = q[1] * r[2]

\* C21 (Spec): whenever a main-loop step closes an episode in which a bid was
\* placed, the win rate it appends to episode_win_rates is the number of
\* auctions the episode won over the number of its auctions with a bid
\* placed (the counts before the step plus what the step added).
EpisodeWinRate ==
    [][Len(episode_win_rates') = Len(episode_win_rates) + 1 =>
         LET wins == num_wins + (cumulative_wins' - cumulative_wins)
             bids == num_bids_placed
                       + (cumulative_bids_placed' - cumulative_bids_placed)
         IN  bids > 0 =>
               SameRatio(episode_win_rates'[Len(episode_win_rates')],
                         Ratio(wins, bids))]_vars

\* C22 (Spec): right after a main-loop step that reported done (the loop
\* going on to its gradient step, or left), the four per-episode counters
\* are 0, the cumulative counts of wins and of bids are the ones the close
\* of the episode recorded, the steps of the closed episodes add up to the
\* main-loop environment steps taken so far, and their rewards add up to
\* cumulative_rewards.
EpisodeBookkeeping ==
    (/\ pc \in {"gradient", "done"}
     /\ env_call.phase = "main"
     /\ replay_buffer[Len(replay_buffer)][5]) =>
        LET closed == Len(cumulative_episode_win_rates)
        IN  /\ episode_reward = 0
            /\ num_wins = 0
            /\ num_bids_placed = 0
            /\ num_episode_steps = 0
            /\ closed = num_episodes_done
            /\ cumulative_episode_win_rates[closed]
                   = Ratio(cumulative_wins, cumulative_bids_placed)
            /\ SumSeq(episode_steps) = num_env_steps - warm_i
            /\ SumSeq(episode_steps) = step + 1
            /\ SumSeq(episode_rewards) = cumulative_rewards

\* the second episode of a run has just been closed, each of the two
\* episodes two steps long with a skipped auction and a bid that won
EpisodeBookkeepingWitness ==
    /\ pc = "done"
    /\ episode_steps = <<2, 2>>
    /\ episode_rewards = <<2, 2>>
    /\ cumulative_rewards = 4
    /\ cumulative_wins = 2
    /\ cumulative_bids_placed = 2
    /\ num_episode_steps = 0

\* np.mean(self.reward_buffer) (line 253): the fraction sum / length
Mean(values) == Ratio(SumSeq(values), Len(values))

\* the rewards of the most recent min(reward_buffer_size, episodes completed)
\* episodes
RecentRewards ==
    LET completed == Len(episode_rewards)
        n == Min(reward_buffer_size, completed)
    IN  SubSeq(episode_rewards, completed - n + 1, completed)

\* C23 (Spec): whenever the log lines are printed after at least one episode
\* was completed, the average printed is the mean of the rewards of the most
\* recent min(reward_buffer_size, episodes completed) episodes, and the
\* number of values averaged is that minimum.
RollingAverage ==
    [][(num_logs' = num_logs + 1 /\ num_episodes_done > 0) =>
         /\ Len(reward_buffer) = Len(RecentRewards)
         /\ SameRatio(Mean(reward_buffer), Mean(RecentRewards))]_vars

\* the phases of train(): WARMUP (lines 106-121), the steady state (the main
\* loop, lines 146-256), DONE (the return, lines 258-266); 0 is a run that
\* an exception ended
PhaseOf(at) ==
    CASE at \in {"start", "warmup"} -> 1
      [] at \in {"main", "gradient"} -> 2
      [] at = "done" -> 3
      [] OTHER -> 0

\* a step of train() keeps the order of the phases, and leaves the main loop
\* only by the episode-count check of a step that reported done
PhaseOrder ==
    /\ PhaseOf(pc') # 0 => PhaseOf(pc') >= PhaseOf(pc)
    /\ (PhaseOf(pc) = 2 /\ PhaseOf(pc') \notin {0, 2}) =>
          /\ pc' = "done"
          /\ replay_buffer'[Len(replay_buffer')][5]
          /\ num_episodes_done' >= num_episodes

\* C24 (Spec): train(num_episodes >= 1) goes on until it returns: short of
\* the bound on the steps, every state before DONE has a next step; no step
\* ends the run other than by the return; the main loop is left only by the
\* episode-count check of a step that reported done; and the phases come in
\* the order WARMUP, steady state, DONE.
TrainingTerminates ==
    /\ []((pc # "done" /\ step < MaxSteps) => ENABLED Next)
    /\ [][PhaseOrder /\ PhaseOf(pc') # 0]_vars

\* the statistics of train() hold nothing yet
NothingRecorded ==
    /\ num_episodes_done = 0
    /\ episode_reward = 0
    /\ num_wins = 0
    /\ num_bids_placed = 0
    /\ num_episode_steps = 0
    /\ cumulative_rewards = 0
    /\ cumulative_wins = 0
    /\ cumulative_bids_placed = 0
    /\ \A i \in 1..5 : RecordLists[i] = <<>>
    /\ reward_buffer = <<0>>

\* C25 (Spec): through the warmup, episodes that end there included, nothing
\* is counted or recorded; the main loop starts with nothing counted, on the
\* observation and the full budget of a reset that no step has followed;
\* every episode counted afterwards is made of main-loop steps alone.
WarmupNotCounted ==
    /\ pc = "warmup" => NothingRecorded
    /\ (pc = "main" /\ step = 0) =>
          /\ NothingRecorded
          /\ obs = obs_seq
          /\ remaining_budget = initial_budget
          /\ \A i \in 1..Len(replay_buffer) : replay_buffer[i][6] < obs
    /\ pc \in {"main", "gradient", "done"} =>
          /\ num_episodes_done = Len(episode_steps)
          /\ SumSeq(episode_steps) + num_episode_steps
                = num_env_steps - warm_i

\* the main loop is about to start after a warmup of two steps, each of
\* which ended an episode
WarmupNotCountedWitness ==
    /\ pc = "main"
    /\ step = 0
    /\ warm_i = 2
    /\ Len(replay_buffer) = 2
    /\ replay_buffer[1][5]
    /\ replay_buffer[2][5]
    /\ num_episodes_done = 0

====
